---------------------------- MODULE Spec2Model ----------------------------
(***************************************************************************)
(* State-machine model of the SIEM dashboard's detection engine            *)
(* (src/app.py): the SQLite store shared by several connections, the       *)
(* rules engine run_detection_on_log, the background generator thread, the *)
(* upload route, the first-request seeding hook and the generator start.   *)
(***************************************************************************)
EXTENDS Integers, Sequences, FiniteSets, TLC

(***************************************************************************)
(* Text.  TLC cannot take a string apart, so a TEXT value that the code    *)
(* searches or lower-cases is spelled out as its sequence of characters.   *)
(***************************************************************************)

\* Python's None / SQL NULL.
None == "<None>"

\* The characters of the event_type and severity texts of the model.
Chars(s) ==
    CASE s = "Port Scan"         -> <<"P","o","r","t"," ","S","c","a","n">>
      [] s = "PORT SCAN"         -> <<"P","O","R","T"," ","S","C","A","N">>
      [] s = "Failed Login"      -> <<"F","a","i","l","e","d"," ","L","o","g","i","n">>
      [] s = "FAILED LOGIN"      -> <<"F","A","I","L","E","D"," ","L","O","G","I","N">>
      [] s = "Login Success"     -> <<"L","o","g","i","n"," ","S","u","c","c","e","s","s">>
      [] s = "Malware Detected"  -> <<"M","a","l","w","a","r","e"," ","D","e","t","e","c","t","e","d">>
      [] s = "Anomaly"           -> <<"A","n","o","m","a","l","y">>
      [] s = "KnownBadIPTraffic" -> <<"K","n","o","w","n","B","a","d","I","P","T","r","a","f","f","i","c">>
      [] s = "Low"               -> <<"L","o","w">>
      [] s = "Medium"            -> <<"M","e","d","i","u","m">>
      [] s = "High"              -> <<"H","i","g","h">>
      [] s = "Critical"          -> <<"C","r","i","t","i","c","a","l">>
      [] s = "CRITICAL"          -> <<"C","R","I","T","I","C","A","L">>
      [] s = "critical"          -> <<"c","r","i","t","i","c","a","l">>
      [] s = "fail"              -> <<"f","a","i","l">>
      [] s = "login"             -> <<"l","o","g","i","n">>
      [] s = "scan"              -> <<"s","c","a","n">>
      [] s = "Scan detected"                    -> <<"S","c","a","n"," ","d","e","t","e","c","t","e","d">>
      [] s = "Failed login admin"               -> <<"F","a","i","l","e","d"," ","l","o","g","i","n"," ","a","d","m","i","n">>
      [] s = "Malware match"                    -> <<"M","a","l","w","a","r","e"," ","m","a","t","c","h">>
      [] s = "root login failed"                -> <<"r","o","o","t"," ","l","o","g","i","n"," ","f","a","i","l","e","d">>
      [] s = "probe"                            -> <<"p","r","o","b","e">>
      [] s = "trojan"                           -> <<"t","r","o","j","a","n">>
      [] s = "old entry"                        -> <<"o","l","d"," ","e","n","t","r","y">>
      [] s = "bad password"                     -> <<"b","a","d"," ","p","a","s","s","w","o","r","d">>
      [] s = "observed (demo)"                  -> <<"o","b","s","e","r","v","e","d"," ","(","d","e","m","o",")">>
      [] s = "Traffic from known malicious IP"  -> <<"T","r","a","f","f","i","c"," ","f","r","o","m"," ","k","n","o","w","n"," ","m","a","l","i","c","i","o","u","s"," ","I","P">>
      [] s = "198.51.100.10"                    -> <<"1","9","8",".","5","1",".","1","0","0",".","1","0">>
      [] s = "203.0.113.4"                      -> <<"2","0","3",".","0",".","1","1","3",".","4">>
      [] s = "192.0.2.45"                       -> <<"1","9","2",".","0",".","2",".","4","5">>
      [] s = "Auth"                             -> <<"A","u","t","h">>
      [] s = "Firewall"                         -> <<"F","i","r","e","w","a","l","l">>
      [] s = "Web Server"                       -> <<"W","e","b"," ","S","e","r","v","e","r">>
      [] s = "IDS"                              -> <<"I","D","S">>
      [] OTHER                   -> <<>>

\* str.lower() on one ASCII character (also the case folding of SQLite's LIKE).
LowerChar(c) ==
    CASE c = "A" -> "a" [] c = "B" -> "b" [] c = "C" -> "c" [] c = "D" -> "d"
      [] c = "E" -> "e" [] c = "F" -> "f" [] c = "G" -> "g" [] c = "H" -> "h"
      [] c = "I" -> "i" [] c = "J" -> "j" [] c = "K" -> "k" [] c = "L" -> "l"
      [] c = "M" -> "m" [] c = "N" -> "n" [] c = "O" -> "o" [] c = "P" -> "p"
      [] c = "Q" -> "q" [] c = "R" -> "r" [] c = "S" -> "s" [] c = "T" -> "t"
      [] c = "U" -> "u" [] c = "V" -> "v" [] c = "W" -> "w" [] c = "X" -> "x"
      [] c = "Y" -> "y" [] c = "Z" -> "z" [] OTHER -> c

\* (value or "").lower(), as a character sequence (lines 161-162).
Lower(s) ==
    IF s = None THEN <<>>
    ELSE [i \in 1..Len(Chars(s)) |-> LowerChar(Chars(s)[i])]

\* Whether the character sequence pat occurs in the character sequence txt.
Contains(txt, pat) ==
    \E i \in 0..(Len(txt) - Len(pat)) :
        \A j \in 1..Len(pat) : txt[i + j] = pat[j]

\* SQLite's `column LIKE '%pat%'`: a case-insensitive substring test; NULL
\* LIKE anything is NULL, which a WHERE clause treats as false.
Like(value, pat) ==
    /\ value # None
    /\ Contains(Lower(value), Lower(pat))

(***************************************************************************)
(* Time.  An instant is a number of half seconds since 2025-11-14T00:00:00 *)
(* UTC, so its microsecond field is 0 or 500000.  The store holds and      *)
(* compares the ISO-8601 TEXT of an instant, never the instant itself.     *)
(***************************************************************************)

\* The decimal digits as characters, and the two digits of n ("%02d").
Digits == <<"0", "1", "2", "3", "4", "5", "6", "7", "8", "9">>

Digit(d) == Digits[d + 1]

TwoDigits(n) == <<Digit((n \div 10) % 10), Digit(n % 10)>>

\* datetime.isoformat() + "Z" (now_ts, lines 140-141, and lines 172, 183):
\* the fraction ".ffffff" is written only when the microsecond field is not 0.
IsoFormat(t) ==
    LET sec == t \div 2
        frac == IF t % 2 = 0 THEN <<>> ELSE <<".","5","0","0","0","0","0">>
    IN  <<"2","0","2","5","-","1","1","-","1","4","T">>
        \o TwoDigits(sec \div 3600) \o <<":">>
        \o TwoDigits((sec \div 60) % 60) \o <<":">>
        \o TwoDigits(sec % 60) \o frac \o <<"Z">>

\* The ASCII code of a character of a timestamp.
Code(c) ==
    CASE c = "-" -> 45 [] c = "." -> 46 [] c = "0" -> 48 [] c = "1" -> 49
      [] c = "2" -> 50 [] c = "3" -> 51 [] c = "4" -> 52 [] c = "5" -> 53
      [] c = "6" -> 54 [] c = "7" -> 55 [] c = "8" -> 56 [] c = "9" -> 57
      [] c = ":" -> 58 [] c = "T" -> 84 [] OTHER -> 90

\* SQLite's `a >= b` on two TEXT values (BINARY collation: byte by byte, a
\* proper prefix being the smaller), as used by `timestamp >= ?`.
TextGe(a, b) ==
    LET n == IF Len(a) < Len(b) THEN Len(a) ELSE Len(b)
        differ == {i \in 1..n : a[i] # b[i]}
    IN  IF differ = {}
        THEN Len(a) >= Len(b)
        ELSE LET first == CHOOSE i \in differ : \A j \in differ : i <= j
             IN  Code(a[first]) > Code(b[first])

(***************************************************************************)
(* Program constants and sample data.                                      *)
(***************************************************************************)

\* `if cnt >= 5` (line 177) and `if pcount >= 10` (line 187).
THRESHOLD_BF == 5
THRESHOLD_PS == 10
\* timedelta(minutes=2) (line 172) and timedelta(seconds=60) (line 183).
WINDOW_BF_MINUTES == 2
WINDOW_PS_SECONDS == 60
\* `for p in range(15)` (line 286): the packets of one port-scan burst.
BURST_SIZE == 15
\* The first destination port of a burst, `1000 + p` (line 288).
BURST_BASE_PORT == 1000

\* The windows in half seconds.
WindowBF == WINDOW_BF_MINUTES * 60 * 2
WindowPS == WINDOW_PS_SECONDS * 2

\* Source addresses.  IpA is both a generator address ("198.51.x.y", line 244)
\* and an entry of MALICIOUS_IPS_SAMPLE; IpB is both a burst address
\* ("203.0.x.y", line 285) and an entry of MALICIOUS_IPS_SAMPLE.
IpA == "198.51.100.10"
IpB == "203.0.113.4"
IpC == "192.0.2.45"
MALICIOUS_IPS_SAMPLE == <<IpB, IpA, IpC>>

\* The instant 2025-11-14T00:30:00Z at which the model's clock starts.
StartInstant == 30 * 60 * 2

\* seed_demo's three rows (lines 511-515); their timestamps are 00:00:00,
\* 00:05:00 and 00:10:00 of 2025-11-14.
DemoRows ==
    << [timestamp |-> <<0>>, source |-> "Firewall", event_type |-> "Port Scan",
        severity |-> "High", message |-> "Scan detected", src_ip |-> IpB],
       [timestamp |-> <<5 * 60 * 2>>, source |-> "Web Server", event_type |-> "Failed Login",
        severity |-> "Medium", message |-> "Failed login admin", src_ip |-> IpA],
       [timestamp |-> <<10 * 60 * 2>>, source |-> "IDS", event_type |-> "Malware Detected",
        severity |-> "Critical", message |-> "Malware match", src_ip |-> IpC] >>

(***************************************************************************)
(* The store.  Every connection sees the committed rows and its own        *)
(* uncommitted ones; SQLite lets one connection at a time hold uncommitted *)
(* writes.  AUTOINCREMENT ids are 1, 2, ... in insertion order.            *)
(***************************************************************************)

\* A log row as inserted (lines 263-265, 276-278, 448-451, 517-518); the
\* timestamp field is the instant whose IsoFormat text the column holds.
LogRow(id, ts, r) ==
    [id |-> id, timestamp |-> ts, source |-> r.source,
     event_type |-> r.event_type, severity |-> r.severity,
     message |-> r.message, src_ip |-> r.src_ip]

\* A packet row (lines 251-252, 287-288).
PacketRow(ts, ip, port) == [timestamp |-> ts, src_ip |-> ip, dst_port |-> port]

\* An alert row (lines 167-168, 178-179, 188-189); n is the count that the
\* message quotes (0 for critical_sev, whose message quotes none).
AlertRow(log_id, rule, severity, n) ==
    [log_id |-> log_id, rule |-> rule, severity |-> severity, n |-> n]

\* A connection without uncommitted writes.
NoPending == [logs |-> <<>>, packets |-> <<>>, alerts |-> <<>>]

\* `SELECT * FROM logs WHERE id = ?` then fetchone() (lines 156-157): <<row>>,
\* or <<>> when fetchone() returns None.
FetchLog(view, log_id) ==
    IF \E i \in DOMAIN view : view[i].id = log_id
    THEN <<view[CHOOSE i \in DOMAIN view : view[i].id = log_id]>>
    ELSE <<>>

\* The brute-force count (lines 172-176): logs of src_ip whose timestamp TEXT
\* is >= the TEXT of (utcnow - 2 minutes) and whose event_type is LIKE
\* '%fail%' or '%login%'.
CountSince(view, src_ip, clock) ==
    LET window == IsoFormat(clock - WindowBF)
    IN  Cardinality({i \in DOMAIN view :
            /\ view[i].src_ip = src_ip
            /\ TextGe(IsoFormat(view[i].timestamp), window)
            /\ (Like(view[i].event_type, "fail") \/ Like(view[i].event_type, "login"))})

\* The port-scan count (lines 183-186): COUNT(DISTINCT dst_port) over the
\* packets of src_ip whose timestamp TEXT is >= the TEXT of (utcnow - 60 s).
CountDistinctPortsSince(view, src_ip, clock) ==
    LET window_pkt == IsoFormat(clock - WindowPS)
    IN  Cardinality({view[i].dst_port : i \in {j \in DOMAIN view :
            /\ view[j].src_ip = src_ip
            /\ TextGe(IsoFormat(view[j].timestamp), window_pkt)}})

\* IsCritical without the lower-casing of line 161.
IsCriticalCaseSensitive(row) == Chars(row.severity) = Chars("critical")

\* `if severity == "critical"` on the lower-cased severity (lines 161, 166).
IsCritical(row) == Lower(row.severity) = Chars("critical")

\* Truthy as `is not None`: the empty string passes.
NotNone(v) == v # None

\* `if src_ip:` (lines 171, 182): neither None nor the empty string.
Truthy(v) == v # None /\ v # ""

\* `if cnt >= 5` (line 177).
BruteForceFires(cnt) == cnt >= THRESHOLD_BF

\* PortScanFires with `>` for `>=`.
PortScanFiresStrict(pcount) == pcount > THRESHOLD_PS

\* `if pcount >= 10` (line 187).
PortScanFires(pcount) == pcount >= THRESHOLD_PS

(***************************************************************************)
(* Bounds of the model.                                                    *)
(***************************************************************************)

\* The generator iterations begun and the store errors raised in one run,
\* and the records of one uploaded file.
MaxIters == 2
MaxFaults == 1
MaxRows == 1
\* The direct calls of run_detection_on_log in one run.
MaxCalls == 2

(***************************************************************************)
(* State.                                                                  *)
(***************************************************************************)

VARIABLES
    now,                \* datetime.utcnow(), as an instant
    logs,               \* committed rows of table logs, by id
    packets,            \* committed rows of table packets, by id
    alerts,             \* committed rows of table alerts, by id
    threat_intel,       \* committed ip values of table threat_intel
    pend,               \* per connection: its uncommitted rows
    pc,                 \* per thread: where it is
    loc,                \* per thread: its local variables
    gen_src_ip,         \* the generator's src_ip of this iteration (line 244)
    GENERATOR_RUNNING,  \* line 197
    GENERATOR_LOCK,     \* line 198: the thread holding it, or None
    seed_done,          \* line 506
    iters,              \* generator iterations begun so far
    faults,             \* store errors raised so far
    calls,              \* direct calls of run_detection_on_log so far
    started,            \* history: generator threads started so far
    evals,              \* history: log id -> calls of run_detection_on_log
    found,              \* history: log id -> rules whose alert its evaluation is to insert
    intel_at            \* history: log id -> contents of threat_intel at its evaluations

vars == <<now, logs, packets, alerts, threat_intel, pend, pc, loc, gen_src_ip,
          GENERATOR_RUNNING, GENERATOR_LOCK, seed_done, iters, faults, calls,
          started, evals, found, intel_at>>

store == <<logs, packets, alerts, threat_intel, pend>>
flags == <<GENERATOR_RUNNING, GENERATOR_LOCK, seed_done, started>>
history == <<evals, found, intel_at>>
budget == <<iters, faults, calls>>

Requests == {"r1", "r2"}
Threads == {"main", "gen"} \cup Requests

NoLocals ==
    [route |-> None, todo |-> 0, seed_left |-> 0, inserted |-> <<>>,
     log_id |-> 0, ret |-> None, resp |-> <<>>]

\* What connection t reads: the committed rows and its own uncommitted ones.
ViewLogs(t) == logs \o pend[t].logs
ViewPackets(t) == packets \o pend[t].packets

\* Whether connection t can write: no other connection holds uncommitted
\* writes (SQLite's single writer); otherwise its INSERT waits.
Writable(t) == \A u \in Threads \ {t} : pend[u] = NoPending

\* LastRowId read before the INSERT: the id of the row before the new one.
LastRowIdStale(t) == Len(ViewLogs(t))

\* cursor.lastrowid after an INSERT INTO logs on connection t (lines 267,
\* 280, 452, 519): the AUTOINCREMENT id given to the new row.
LastRowId(t) == Len(ViewLogs(t)) + 1

\* LockFree for a lock that excludes no one.
NoLock == TRUE

\* Whether `with GENERATOR_LOCK` (line 300) can be entered.
LockFree == GENERATOR_LOCK = None

\* Where a finished call returns to.  The generator's random.random() tests
\* (lines 273, 284) pick among the branches that follow.
After(ret) ==
    CASE ret = "after_log" -> {"gen_bad", "gen_burst", "gen_pkt"}
      [] ret = "after_bad" -> {"gen_burst", "gen_pkt"}
      [] OTHER -> {ret}

\* A history function with one more call, or with more members, for log id.
Bump(f, id) == IF id \in DOMAIN f THEN [f EXCEPT ![id] = @ + 1] ELSE f @@ (id :> 1)
Note(f, id, rules) ==
    IF id \in DOMAIN f THEN [f EXCEPT ![id] = @ \cup rules] ELSE f @@ (id :> rules)

(***************************************************************************)
(* Inputs.                                                                 *)
(***************************************************************************)

\* Records an uploaded file may hold (line 446); timestamp is <<>> for a
\* record without one and <<instant>> for one that gives its ISO text; a
\* field the record lacks is None, as r.get() gives it (lines 450-451).
UploadRows ==
    { [timestamp |-> <<>>, source |-> "Auth", event_type |-> "FAILED LOGIN",
       severity |-> "Critical", message |-> "root login failed", src_ip |-> IpA],
      [timestamp |-> <<>>, source |-> "Firewall", event_type |-> "PORT SCAN",
       severity |-> "High", message |-> "probe", src_ip |-> IpA],
      [timestamp |-> <<>>, source |-> "IDS", event_type |-> "Malware Detected",
       severity |-> "Critical", message |-> "trojan", src_ip |-> None],
      [timestamp |-> <<5 * 60 * 2>>, source |-> "Auth", event_type |-> "Failed Login",
       severity |-> None, message |-> "old entry", src_ip |-> IpA] }

\* The generator's random choices that the model follows: random src_ip
\* (line 244), dst_port (line 247), event_type and severity (lines 258-259),
\* the malicious address (line 274), port_scanner (line 285).
GenIps == {IpA}
GenPorts == {1028}
GenEvents == {"Failed Login"}
GenSeverities == {"Low", "Critical"}
GenBadIps == {IpB}
BurstIps == {IpB}

\* The generator's sleeps in half seconds: random.uniform(0.6, 2.5) at the
\* end of an iteration (line 292), of which the model follows 1.5 s, and the
\* one second of the except clause (line 296).
GenSleeps == {3}
ExceptSleep == 2

\* Rows left in the store by earlier runs of the program (the database file
\* outlives the process): k failed logins of IpA uploaded with timestamp ts,
\* and n + 1 single packets of IpA to n distinct ports, one second apart from
\* ts (the last two go to the same port).
PriorLogs(k, ts) ==
    [i \in 1..k |->
        [id |-> i, timestamp |-> ts, source |-> "Auth", event_type |-> "Failed Login",
         severity |-> "Medium", message |-> "bad password", src_ip |-> IpA]]

PriorPorts == <<22, 80, 443, 8080, 3306, 1024, 1025, 1026, 1027>>

PriorPackets(n, ts) ==
    [i \in 1..(n + 1) |->
        PacketRow(ts + 2 * (i - 1), IpA, IF i > n THEN PriorPorts[n] ELSE PriorPorts[i])]

InitStores ==
    { [logs |-> <<>>, packets |-> <<>>],
      [logs |-> PriorLogs(THRESHOLD_BF - 1, StartInstant - 2),
       packets |-> PriorPackets(THRESHOLD_PS - 1, StartInstant - 20)],
      [logs |-> PriorLogs(THRESHOLD_BF - 1, StartInstant - WindowBF + 1),
       packets |-> PriorPackets(THRESHOLD_PS - 1, StartInstant - WindowPS + 1)] }

\* The stores over which run_detection_on_log is called directly: those
\* above, and two that hold as many failed logins of IpA as the
\* brute-force rule asks for, one second old and five minutes old.
AgedStore ==
    [logs |-> PriorLogs(THRESHOLD_BF, StartInstant - 5 * 60 * 2),
     packets |-> PriorPackets(THRESHOLD_PS - 1, StartInstant - 20)]

\* A store whose logs came from uploads without a usable src_ip: as many
\* failed logins as the brute-force rule asks for, two seconds old, from a
\* CSV file whose src_ip column is empty, and one critical failed login from
\* a JSON file that has no src_ip.
AbsentStore ==
    [logs |-> [i \in 1..(THRESHOLD_BF + 1) |->
                 [id |-> i, timestamp |-> StartInstant - 2, source |-> "Auth",
                  event_type |-> "Failed Login",
                  severity |-> IF i > THRESHOLD_BF THEN "Critical" ELSE "Medium",
                  message |-> "bad password",
                  src_ip |-> IF i > THRESHOLD_BF THEN None ELSE ""]],
     packets |-> PriorPackets(THRESHOLD_PS - 1, StartInstant - 20)]

CallStores ==
    InitStores \cup
    { [logs |-> PriorLogs(THRESHOLD_BF, StartInstant - 2),
       packets |-> PriorPackets(THRESHOLD_PS - 1, StartInstant - 20)],
      AgedStore }

(***************************************************************************)
(* Initial states: the module has been imported (init_db, line 125) over   *)
(* the store s.  The process either runs the __main__ block (lines         *)
(* 553-558), m = "main_ti", or is served by a WSGI server that only        *)
(* imports the module, m = "serving".                                      *)
(***************************************************************************)

InitWith(m, s) ==
    /\ now = StartInstant
    /\ pc = [t \in Threads |->
            CASE t = "main" -> m [] t = "gen" -> "off" [] OTHER -> "idle"]
    /\ logs = s.logs
    /\ packets = s.packets
    /\ evals = [i \in 1..Len(s.logs) |-> 1]
    /\ found = [i \in 1..Len(s.logs) |-> {}]
    /\ intel_at = [i \in 1..Len(s.logs) |-> {}]
    /\ alerts = <<>>
    /\ threat_intel = {}
    /\ pend = [t \in Threads |-> NoPending]
    /\ loc = [t \in Threads |-> NoLocals]
    /\ gen_src_ip = None
    /\ GENERATOR_RUNNING = FALSE
    /\ GENERATOR_LOCK = None
    /\ seed_done = FALSE
    /\ iters = 0
    /\ faults = 0
    /\ calls = 0
    /\ started = 0

\* Served by a WSGI server, over any of the stores.
Init == \E s \in InitStores : InitWith("serving", s)

\* The state in which run_detection_on_log is called directly.
InitCall == \E m \in {"main_ti", "serving"}, s \in CallStores : InitWith(m, s)

\* Either way of starting, over a new store or one that holds logs.
InitStart ==
    \E m \in {"main_ti", "serving"}, s \in InitStores :
        /\ s.logs # <<>> => s.logs[1].timestamp = StartInstant - 2
        /\ InitWith(m, s)

(***************************************************************************)
(* Store operations.                                                       *)
(***************************************************************************)

\* CommitWith with a retention rule: packets older than the port-scan window
\* are deleted at each commit.
CommitWithPrune(t, newLogs, newPackets, newAlerts) ==
    /\ logs' = logs \o pend[t].logs \o newLogs
    /\ packets' = SelectSeq(packets, LAMBDA p : p.timestamp >= now - WindowPS)
                     \o pend[t].packets \o newPackets
    /\ alerts' = alerts \o pend[t].alerts \o newAlerts
    /\ pend' = [pend EXCEPT ![t] = NoPending]

\* conn.commit() on connection t, after it has also written the given rows:
\* all its uncommitted rows become visible to every connection.
CommitWith(t, newLogs, newPackets, newAlerts) ==
    /\ logs' = logs \o pend[t].logs \o newLogs
    /\ packets' = packets \o pend[t].packets \o newPackets
    /\ alerts' = alerts \o pend[t].alerts \o newAlerts
    /\ pend' = [pend EXCEPT ![t] = NoPending]

\* seed_threat_intel_if_empty (lines 222-231) on a connection of its own.
SeedThreatIntel ==
    /\ threat_intel = {} => \A u \in Threads : pend[u] = NoPending
    /\ threat_intel' =
         IF threat_intel = {}
         THEN {MALICIOUS_IPS_SAMPLE[i] : i \in DOMAIN MALICIOUS_IPS_SAMPLE}
         ELSE threat_intel
    /\ UNCHANGED <<logs, packets, alerts, pend>>

\* One more store error is raised.
Fault ==
    /\ faults < MaxFaults
    /\ faults' = faults + 1
    /\ UNCHANGED <<iters, calls>>

\* The clock as thread t moves on to position q.  Time passes while the
\* generator sleeps: at the end of an iteration (line 292), which is where
\* it goes back to the head of its loop.  Statements take no time.
Clock(t, q) ==
    IF t = "gen" /\ q = "gen_pkt"
    THEN \E d \in GenSleeps : now' = now + d
    ELSE now' = now

(***************************************************************************)
(* run_detection_on_log (lines 147-191), called by thread t with           *)
(* loc[t].log_id; loc[t].ret is where the caller continues.                *)
(***************************************************************************)

\* Lines 166-168: the critical_sev alert, when the lower-cased severity is
\* "critical".
CriticalAlerts(log_id, row) ==
    IF IsCritical(row)
    THEN <<AlertRow(log_id, "critical_sev", "Critical", 0)>>
    ELSE <<>>

\* Lines 170-179: the brute-force rule.
BruteForceAlerts(viewLogs, log_id, row, clock) ==
    LET src_ip == row.src_ip
        cnt == CountSince(viewLogs, src_ip, clock)
    IN  IF Truthy(src_ip) /\ BruteForceFires(cnt)
        THEN <<AlertRow(log_id, "brute_force", "Medium", cnt)>>
        ELSE <<>>

\* Lines 181-189: the port-scan rule.
PortScanAlerts(viewPackets, log_id, row, clock) ==
    LET src_ip == row.src_ip
        pcount == CountDistinctPortsSince(viewPackets, src_ip, clock)
    IN  IF Truthy(src_ip) /\ PortScanFires(pcount)
        THEN <<AlertRow(log_id, "port_scan", "High", pcount)>>
        ELSE <<>>

\* Lines 155-189: the alerts that one call inserts, in the order of their
\* INSERTs; none when the row cannot be read back (lines 158-159).
AlertsFor(viewLogs, viewPackets, log_id, clock) ==
    LET got == FetchLog(viewLogs, log_id)
    IN  IF got = <<>>
        THEN <<>>
        ELSE CriticalAlerts(log_id, got[1])
             \o BruteForceAlerts(viewLogs, log_id, got[1], clock)
             \o PortScanAlerts(viewPackets, log_id, got[1], clock)

\* The rules of a sequence of alerts.
RulesOf(as) == {as[i].rule : i \in DOMAIN as}

\* The whole call: the three rules, their INSERTs, and the commit of line 191
\* that makes them visible together; then the return to the caller.
\* Detect with a fourth rule, which looks the log's src_ip up in threat_intel.
DetectWithIntel(t) ==
    /\ pc[t] = "detect"
    /\ LET id == loc[t].log_id
           got == FetchLog(ViewLogs(t), id)
           due == AlertsFor(ViewLogs(t), ViewPackets(t), id, now)
                  \o (IF got # <<>> /\ got[1].src_ip \in threat_intel
                      THEN <<AlertRow(id, "threat_intel", "High", 0)>>
                      ELSE <<>>)
       IN  /\ due # <<>> => Writable(t)
           /\ IF got = <<>>
              THEN UNCHANGED store
              ELSE /\ CommitWith(t, <<>>, <<>>, due)
                   /\ UNCHANGED threat_intel
           /\ evals' = Bump(evals, id)
           /\ found' = Note(found, id, RulesOf(due))
           /\ intel_at' = Note(intel_at, id, {threat_intel})
    /\ \E q \in After(loc[t].ret) :
        /\ pc' = [pc EXCEPT ![t] = q]
        /\ Clock(t, q)
    /\ UNCHANGED <<loc, gen_src_ip, flags, budget>>

Detect(t) ==
    /\ pc[t] = "detect"
    /\ LET id == loc[t].log_id
           due == AlertsFor(ViewLogs(t), ViewPackets(t), id, now)
       IN  /\ due # <<>> => Writable(t)
           /\ IF FetchLog(ViewLogs(t), id) = <<>>
              THEN UNCHANGED store
              ELSE /\ CommitWith(t, <<>>, <<>>, due)
                   /\ UNCHANGED threat_intel
           /\ evals' = Bump(evals, id)
           /\ found' = Note(found, id, RulesOf(due))
           /\ intel_at' = Note(intel_at, id, {threat_intel})
    /\ \E q \in After(loc[t].ret) :
        /\ pc' = [pc EXCEPT ![t] = q]
        /\ Clock(t, q)
    /\ UNCHANGED <<loc, gen_src_ip, flags, budget>>

\* run_detection_on_log(conn, log_id) is called directly (line 147) on the
\* connection of thread t, with the id of a stored log or with an id that
\* no row has.
Call(t) ==
    /\ pc[t] \in {"idle", "called"}
    /\ calls < MaxCalls
    /\ calls' = calls + 1
    /\ \E log_id \in 0..(Len(logs) + 1) :
        loc' = [loc EXCEPT ![t].log_id = log_id, ![t].ret = "called"]
    /\ pc' = [pc EXCEPT ![t] = "detect"]
    /\ UNCHANGED <<now, store, gen_src_ip, flags, iters, faults, history>>

\* Whether request thread t is inside run_seed_once's try block (lines
\* 542-544), whose except clause (line 545) catches what is raised there.
InHook(t) ==
    \/ pc[t] \in {"seed_ins", "seed_ti"}
    \/ pc[t] = "detect" /\ loc[t].ret \in {"seed_ins", "seed_ti"}

\* A store call of thread t raises while its connection holds the uncommitted
\* rows `kept`.  The generator's loop catches it (lines 293-296) and keeps its
\* connection, uncommitted rows included; the seeding hook catches it (lines
\* 545-547) and its connection is dropped; a route lets it escape: the
\* request fails and its connection is closed (line 42).  A connection that
\* is dropped or closed loses its uncommitted rows.
Unwind(t, kept) ==
    /\ Fault
    /\ pc' = [pc EXCEPT ![t] = IF t = "gen" THEN "gen_except"
                                ELSE IF InHook(t) THEN "hook_done" ELSE "failed"]
    /\ pend' = [pend EXCEPT ![t] = IF t = "gen" THEN kept ELSE NoPending]
    /\ UNCHANGED <<logs, packets, alerts, threat_intel, loc>>

\* A statement of the call raises after k of its alerts were inserted: the
\* INSERT of the next alert when there is one, else a SELECT or the commit.
DetectFails(t) ==
    /\ pc[t] = "detect"
    /\ LET id == loc[t].log_id
           due == AlertsFor(ViewLogs(t), ViewPackets(t), id, now)
       IN  \E k \in 0..Len(due) :
            /\ k > 0 => Writable(t)
            /\ Unwind(t, [pend[t] EXCEPT !.alerts = @ \o SubSeq(due, 1, k)])
            /\ evals' = Bump(evals, id)
            /\ found' = Note(found, id, RulesOf(due))
            /\ intel_at' = Note(intel_at, id, {threat_intel})
    /\ UNCHANGED <<now, gen_src_ip, flags>>

(***************************************************************************)
(* ensure_generator_running (lines 298-304), called by thread t.           *)
(***************************************************************************)

\* Line 300: enter `with GENERATOR_LOCK`.
EnsureAcquire(t) ==
    /\ pc[t] = "ens_lock"
    /\ LockFree
    /\ GENERATOR_LOCK' = t
    /\ pc' = [pc EXCEPT ![t] = "ens_check"]
    /\ UNCHANGED <<now, store, loc, gen_src_ip, GENERATOR_RUNNING, seed_done, budget,
                   started, history>>

\* Lines 301-303: test the flag; start the thread when it is not set,
\* otherwise leave the with block.
EnsureCheck(t) ==
    /\ pc[t] = "ens_check"
    /\ IF ~GENERATOR_RUNNING
       THEN /\ started' = started + 1
            /\ pc' = [pc EXCEPT ![t] = "ens_set",
                                !["gen"] = IF @ = "off" THEN "boot" ELSE @]
            /\ UNCHANGED GENERATOR_LOCK
       ELSE /\ pc' = [pc EXCEPT ![t] = loc[t].ret]
            /\ GENERATOR_LOCK' = None
            /\ UNCHANGED started
    /\ UNCHANGED <<now, store, loc, gen_src_ip, GENERATOR_RUNNING, seed_done, budget, history>>

\* Line 304: set the flag and leave the with block.
EnsureSet(t) ==
    /\ pc[t] = "ens_set"
    /\ GENERATOR_RUNNING' = TRUE
    /\ GENERATOR_LOCK' = None
    /\ pc' = [pc EXCEPT ![t] = loc[t].ret]
    /\ UNCHANGED <<now, store, loc, gen_src_ip, seed_done, budget, started, history>>

(***************************************************************************)
(* bg_generator_loop (lines 233-296), the thread "gen".                    *)
(***************************************************************************)

\* Lines 237-239, before the loop and outside its try block.
GenBoot ==
    /\ pc["gen"] = "boot"
    /\ SeedThreatIntel
    /\ pc' = [pc EXCEPT !["gen"] = "gen_pkt"]
    /\ UNCHANGED <<now, loc, gen_src_ip, flags, budget, history>>

\* A store call of lines 237-239 raises: nothing catches it and the thread
\* ends.
GenBootFails ==
    /\ pc["gen"] = "boot"
    /\ Fault
    /\ pc' = [pc EXCEPT !["gen"] = "dead"]
    /\ UNCHANGED <<now, store, loc, gen_src_ip, flags, history>>

\* Lines 244-256, 273, 284: one packet inserted and committed, together with
\* whatever the connection still held uncommitted; then the random tests
\* pick the next branch.
GenPacket ==
    /\ pc["gen"] = "gen_pkt"
    /\ iters < MaxIters
    /\ iters' = iters + 1
    /\ UNCHANGED <<faults, calls>>
    /\ Writable("gen")
    /\ \E ip \in GenIps, port \in GenPorts :
        /\ CommitWith("gen", <<>>, <<PacketRow(now, ip, port)>>, <<>>)
        /\ gen_src_ip' = ip
    /\ \E q \in {"gen_log", "gen_bad", "gen_burst", "gen_pkt"} :
        /\ pc' = [pc EXCEPT !["gen"] = q]
        /\ Clock("gen", q)
    /\ UNCHANGED <<threat_intel, loc, flags, history>>

\* The generator's log rows (lines 257-265, 274-278).
GenLogRow(event_type, severity) ==
    [source |-> "IDS", event_type |-> event_type, severity |-> severity,
     message |-> "observed (demo)", src_ip |-> gen_src_ip]

GenBadRow(bad) ==
    [source |-> "ThreatFeed", event_type |-> "KnownBadIPTraffic", severity |-> "High",
     message |-> "Traffic from known malicious IP", src_ip |-> bad]

\* GenInsertLog without the commit of lines 266 and 279: the row reaches the
\* call of run_detection_on_log uncommitted.
GenInsertLogNoCommit(r, ret) ==
    /\ Writable("gen")
    /\ pend' = [pend EXCEPT !["gen"].logs = Append(@, LogRow(LastRowId("gen"), now, r))]
    /\ loc' = [loc EXCEPT !["gen"].log_id = LastRowId("gen"), !["gen"].ret = ret]
    /\ pc' = [pc EXCEPT !["gen"] = "detect"]
    /\ UNCHANGED <<now, logs, packets, alerts, threat_intel, gen_src_ip, flags, budget,
                   history>>

\* The INSERT and commit of a generator log row (lines 263-267, 276-280),
\* then the call of run_detection_on_log (lines 270, 281).
GenInsertLog(r, ret) ==
    /\ Writable("gen")
    /\ CommitWith("gen", <<LogRow(LastRowId("gen"), now, r)>>, <<>>, <<>>)
    /\ loc' = [loc EXCEPT !["gen"].log_id = LastRowId("gen"), !["gen"].ret = ret]
    /\ pc' = [pc EXCEPT !["gen"] = "detect"]
    /\ UNCHANGED <<now, threat_intel, gen_src_ip, flags, budget, history>>

\* Lines 256-270.
GenLog ==
    /\ pc["gen"] = "gen_log"
    /\ \E event_type \in GenEvents, severity \in GenSeverities :
        GenInsertLog(GenLogRow(event_type, severity), "after_log")

\* Lines 273-281.
GenBad ==
    /\ pc["gen"] = "gen_bad"
    /\ \E i \in DOMAIN MALICIOUS_IPS_SAMPLE :
        /\ MALICIOUS_IPS_SAMPLE[i] \in GenBadIps
        /\ GenInsertLog(GenBadRow(MALICIOUS_IPS_SAMPLE[i]), "after_bad")

\* Lines 285-292: fifteen packets to fifteen ports, one commit, the sleep.
GenBurst ==
    /\ pc["gen"] = "gen_burst"
    /\ Writable("gen")
    /\ \E port_scanner \in BurstIps :
        CommitWith("gen", <<>>,
            [p \in 1..BURST_SIZE |-> PacketRow(now, port_scanner, BURST_BASE_PORT + p - 1)],
            <<>>)
    /\ pc' = [pc EXCEPT !["gen"] = "gen_pkt"]
    /\ Clock("gen", "gen_pkt")
    /\ UNCHANGED <<threat_intel, loc, gen_src_ip, flags, budget, history>>

\* An INSERT of the loop raises before it wrote anything.
GenInsertFails ==
    /\ pc["gen"] \in {"gen_pkt", "gen_log", "gen_bad", "gen_burst"}
    /\ Unwind("gen", pend["gen"])
    /\ UNCHANGED <<now, gen_src_ip, flags, history>>

\* The commit after the log INSERT raises (line 266): the row stays
\* uncommitted on the generator's connection.
GenCommitFails ==
    /\ pc["gen"] = "gen_log"
    /\ Writable("gen")
    /\ \E event_type \in GenEvents, severity \in GenSeverities :
        Unwind("gen", [pend["gen"] EXCEPT !.logs = Append(@,
                    LogRow(LastRowId("gen"), now, GenLogRow(event_type, severity)))])
    /\ UNCHANGED <<now, gen_src_ip, flags, history>>

\* Lines 293-296: print the error, sleep one second, loop.
GenExcept ==
    /\ pc["gen"] = "gen_except"
    /\ pc' = [pc EXCEPT !["gen"] = "gen_pkt"]
    /\ now' = now + ExceptSleep
    /\ UNCHANGED <<store, loc, gen_src_ip, flags, budget, history>>

(***************************************************************************)
(* Requests: the before_request hook run_seed_once (lines 538-547) with    *)
(* maybe_seed and seed_demo (lines 508-536), then the route.               *)
(***************************************************************************)

\* The route of request t begins: api_upload's loop (line 446), or login's
\* call of ensure_generator_running (line 329).
RouteEntry(route) ==
    CASE route = "upload" -> "up_ins"
      [] route = "logs" -> "q_logs"
      [] route = "alerts" -> "q_alerts"
      [] OTHER -> "ens_lock"

EnterRoute(t) ==
    IF loc[t].route # "login"
    THEN /\ pc' = [pc EXCEPT ![t] = RouteEntry(loc[t].route)]
         /\ UNCHANGED loc
    ELSE /\ pc' = [pc EXCEPT ![t] = "ens_lock"]
         /\ loc' = [loc EXCEPT ![t].ret = "done"]

\* A request for an upload of n records (lines 416-458), a successful
\* login (lines 316-330), or a query of the logs or the alerts (lines
\* 349-385) arrives at worker thread t; app.run (line 558) serves requests
\* only after the __main__ block has started the generator.  Then lines
\* 541-544 and 528-533: test seed_done; if unset, count the logs on a new
\* connection and go on to seed_demo or to ensure_generator_running.
StartRequest(t, route, n) ==
    /\ pc[t] = "idle"
    /\ pc["main"] = "serving"
    /\ n > 0 <=> route = "upload"
    /\ LET mine == [NoLocals EXCEPT !.route = route, !.todo = n]
       IN  IF seed_done
           THEN /\ pc' = [pc EXCEPT ![t] = RouteEntry(route)]
                /\ loc' = [loc EXCEPT ![t] = [mine EXCEPT !.ret = "done"]]
           ELSE IF Len(logs) = 0
           THEN /\ pc' = [pc EXCEPT ![t] = "seed_ins"]
                /\ loc' = [loc EXCEPT ![t] = [mine EXCEPT !.seed_left = Len(DemoRows)]]
           ELSE /\ pc' = [pc EXCEPT ![t] = "ens_lock"]
                /\ loc' = [loc EXCEPT ![t] = [mine EXCEPT !.ret = "hook_done"]]
    /\ UNCHANGED <<now, store, gen_src_ip, flags, budget, history>>

\* Lines 516-521: insert and commit the next demo row, then evaluate it.
SeedInsert(t) ==
    /\ pc[t] = "seed_ins"
    /\ Writable(t)
    /\ LET row == DemoRows[Len(DemoRows) - loc[t].seed_left + 1]
       IN  CommitWith(t, <<LogRow(LastRowId(t), row.timestamp[1], row)>>, <<>>, <<>>)
    /\ loc' = [loc EXCEPT ![t].log_id = LastRowId(t),
                          ![t].seed_left = @ - 1,
                          ![t].ret = IF loc[t].seed_left = 1 THEN "seed_ti" ELSE "seed_ins"]
    /\ pc' = [pc EXCEPT ![t] = "detect"]
    /\ UNCHANGED <<now, threat_intel, gen_src_ip, flags, budget, history>>

\* Lines 524-525 and 536, then line 544.
SeedIntel(t) ==
    /\ pc[t] = "seed_ti"
    /\ SeedThreatIntel
    /\ pc' = [pc EXCEPT ![t] = "ens_lock"]
    /\ loc' = [loc EXCEPT ![t].ret = "hook_done"]
    /\ UNCHANGED <<now, gen_src_ip, flags, budget, history>>

\* Line 547, then the route.
HookDone(t) ==
    /\ pc[t] = "hook_done"
    /\ seed_done' = TRUE
    /\ EnterRoute(t)
    /\ UNCHANGED <<now, store, gen_src_ip, GENERATOR_RUNNING, GENERATOR_LOCK, started,
                   budget, history>>

\* A store call of maybe_seed or seed_demo raises (lines 530, 517, 520, 524).
HookFails(t) ==
    /\ pc[t] \in {"seed_ins", "seed_ti"}
    /\ Unwind(t, NoPending)
    /\ UNCHANGED <<now, gen_src_ip, flags, history>>

\* `LIMIT ?` of SQLite on a result: the first `limit` rows; a negative
\* limit sets no upper bound.
Limit(rows, limit) ==
    IF limit < 0 \/ limit >= Len(rows) THEN rows ELSE SubSeq(rows, 1, limit)

\* `ORDER BY id DESC` on a set of log rows.
RECURSIVE OrderByIdDesc(_)
OrderByIdDesc(rows) ==
    IF rows = {} THEN <<>>
    ELSE LET top == CHOOSE r \in rows : \A o \in rows : o.id <= r.id
         IN  <<top>> \o OrderByIdDesc(rows \ {top})

\* The WHERE clause that api_logs builds (lines 360-373): a filter is added
\* for each argument that is given and not empty; `column = ?` is false of a
\* NULL column.
Matches(row, a) ==
    /\ Truthy(a.severity) => row.severity = a.severity
    /\ Truthy(a.source) => row.source = a.source
    /\ Truthy(a.event_type) => row.event_type = a.event_type
    /\ Truthy(a.q) => \/ Like(row.message, a.q)
                      \/ Like(row.src_ip, a.q)
                      \/ Like(row.event_type, a.q)

DEFAULT_LIMIT == 200
ALERTS_LIMIT == 50

\* The arguments of the requests to /api/logs that the model follows; an
\* argument that the request does not carry is None, and <<>> for limit.
QueryArgs ==
    [severity : {None, "Critical"}, source : {None, "Auth"},
     event_type : {None, "Failed Login"}, q : {None, "login"},
     limit : {<<>>, <<-1>>, <<0>>, <<1>>, <<2>>}]

\* Lines 351-378: the rows that /api/logs returns for the arguments a.
SelectLogs(view, a) ==
    LET limit == IF a.limit = <<>> THEN DEFAULT_LIMIT ELSE a.limit[1]
    IN  Limit(OrderByIdDesc({view[i] : i \in {j \in DOMAIN view : Matches(view[j], a)}}),
              limit)

\* Lines 383-385: the rows that /api/alerts returns, each with its id (its
\* place in the table).
SelectAlerts(view) ==
    Limit([k \in 1..Len(view) |->
              [id |-> Len(view) + 1 - k, alert |-> view[Len(view) + 1 - k]]],
          ALERTS_LIMIT)

\* api_logs (lines 349-378) with the arguments a.
QueryLogsWith(t, a) ==
    /\ pc[t] = "q_logs"
    /\ loc' = [loc EXCEPT ![t].resp = SelectLogs(ViewLogs(t), a)]
    /\ pc' = [pc EXCEPT ![t] = "done"]
    /\ UNCHANGED <<now, store, gen_src_ip, flags, budget, history>>

QueryLogs(t) == \E a \in QueryArgs : QueryLogsWith(t, a)

\* api_alerts (lines 381-385).
QueryAlerts(t) ==
    /\ pc[t] = "q_alerts"
    /\ loc' = [loc EXCEPT ![t].resp = SelectAlerts(alerts \o pend[t].alerts)]
    /\ pc' = [pc EXCEPT ![t] = "done"]
    /\ UNCHANGED <<now, store, gen_src_ip, flags, budget, history>>

\* UploadInsert without the commit of line 453: the row reaches the call of
\* run_detection_on_log uncommitted.
UploadInsertNoCommit(t) ==
    /\ pc[t] = "up_ins"
    /\ Writable(t)
    /\ \E r \in UploadRows :
        LET ts == IF r.timestamp = <<>> THEN now ELSE r.timestamp[1]
        IN  pend' = [pend EXCEPT ![t].logs = Append(@, LogRow(LastRowId(t), ts, r))]
    /\ loc' = [loc EXCEPT ![t].log_id = LastRowId(t),
                          ![t].inserted = Append(@, LastRowId(t)),
                          ![t].todo = @ - 1,
                          ![t].ret = IF loc[t].todo = 1 THEN "done" ELSE "up_ins"]
    /\ pc' = [pc EXCEPT ![t] = "detect"]
    /\ UNCHANGED <<now, logs, packets, alerts, threat_intel, gen_src_ip, flags, budget,
                   history>>

\* UploadInsert with the new id put at the head of `inserted`.
UploadInsertPrepend(t) ==
    /\ pc[t] = "up_ins"
    /\ Writable(t)
    /\ \E r \in UploadRows :
        LET ts == IF r.timestamp = <<>> THEN now ELSE r.timestamp[1]
        IN  CommitWith(t, <<LogRow(LastRowId(t), ts, r)>>, <<>>, <<>>)
    /\ loc' = [loc EXCEPT ![t].log_id = LastRowId(t),
                          ![t].inserted = <<LastRowId(t)>> \o @,
                          ![t].todo = @ - 1,
                          ![t].ret = IF loc[t].todo = 1 THEN "done" ELSE "up_ins"]
    /\ pc' = [pc EXCEPT ![t] = "detect"]
    /\ UNCHANGED <<now, threat_intel, gen_src_ip, flags, budget, history>>

\* Lines 446-456: insert and commit the next record of the file, then
\* evaluate it.  The append to the thread-local list `inserted` (line 456)
\* is taken here: no one sees the list before the response.
UploadInsert(t) ==
    /\ pc[t] = "up_ins"
    /\ Writable(t)
    /\ \E r \in UploadRows :
        LET ts == IF r.timestamp = <<>> THEN now ELSE r.timestamp[1]
        IN  CommitWith(t, <<LogRow(LastRowId(t), ts, r)>>, <<>>, <<>>)
    /\ loc' = [loc EXCEPT ![t].log_id = LastRowId(t),
                          ![t].inserted = Append(@, LastRowId(t)),
                          ![t].todo = @ - 1,
                          ![t].ret = IF loc[t].todo = 1 THEN "done" ELSE "up_ins"]
    /\ pc' = [pc EXCEPT ![t] = "detect"]
    /\ UNCHANGED <<now, threat_intel, gen_src_ip, flags, budget, history>>

\* The INSERT or the commit of lines 448-453 raises.
UploadFails(t) ==
    /\ pc[t] = "up_ins"
    /\ Unwind(t, NoPending)
    /\ UNCHANGED <<now, gen_src_ip, flags, history>>

(***************************************************************************)
(* The __main__ block (lines 553-558).                                     *)
(***************************************************************************)

\* Line 556, then the call of line 557.
MainStart ==
    /\ pc["main"] = "main_ti"
    /\ SeedThreatIntel
    /\ pc' = [pc EXCEPT !["main"] = "ens_lock"]
    /\ loc' = [loc EXCEPT !["main"].ret = "serving"]
    /\ UNCHANGED <<now, gen_src_ip, flags, budget, history>>

\* Ingestion: one upload request, whose hook starts the generator, and the
\* generator.
Next ==
    \/ \E t \in Threads :
        \/ Detect(t)
        \/ DetectFails(t)
        \/ EnsureAcquire(t)
        \/ EnsureCheck(t)
        \/ EnsureSet(t)
    \/ \E n \in 1..MaxRows : StartRequest("r1", "upload", n)
    \/ SeedInsert("r1")
    \/ SeedIntel("r1")
    \/ HookDone("r1")
    \/ HookFails("r1")
    \/ UploadInsert("r1")
    \/ UploadFails("r1")
    \/ GenBoot
    \/ GenBootFails
    \/ GenPacket
    \/ GenLog
    \/ GenBad
    \/ GenBurst
    \/ GenInsertFails
    \/ GenCommitFails
    \/ GenExcept

Spec == Init /\ [][Next]_vars

\* Start-up: the __main__ block and two first requests, both logins, race to
\* seed the store and to start the generator, which is followed up to its
\* loop.
NextStart ==
    \/ \E t \in Threads :
        \/ Detect(t)
        \/ DetectFails(t)
        \/ EnsureAcquire(t)
        \/ EnsureCheck(t)
        \/ EnsureSet(t)
    \/ \E t \in Requests :
        \/ StartRequest(t, "login", 0)
        \/ SeedInsert(t)
        \/ SeedIntel(t)
        \/ HookDone(t)
        \/ HookFails(t)
    \/ GenBoot
    \/ GenBootFails
    \/ MainStart

SpecStart == InitStart /\ [][NextStart]_vars

\* Uploads of files of one more record, beside a generator that meets no
\* store error and takes neither of its two rare branches.
NextUpload ==
    \/ \E t \in Threads :
        \/ Detect(t)
        \/ EnsureAcquire(t)
        \/ EnsureCheck(t)
        \/ EnsureSet(t)
    \/ \E n \in 1..(MaxRows + 1) : StartRequest("r1", "upload", n)
    \/ SeedInsert("r1")
    \/ SeedIntel("r1")
    \/ HookDone("r1")
    \/ UploadInsert("r1")
    \/ GenBoot
    \/ GenPacket
    \/ GenLog

SpecUpload == Init /\ [][NextUpload]_vars

\* The rules engine on its own: direct calls of run_detection_on_log on one
\* connection, while the __main__ block seeds the threat intelligence.
NextCall ==
    \/ Call("r1")
    \/ Detect("r1")
    \/ DetectFails("r1")
    \/ MainStart

SpecCall == InitCall /\ [][NextCall]_vars

\* The same calls over the store whose logs have no usable src_ip.
InitAbsent == \E m \in {"main_ti", "serving"} : InitWith(m, AbsentStore)

SpecAbsent == InitAbsent /\ [][NextCall]_vars

\* Queries: requests to /api/logs and /api/alerts, the first of which seeds
\* a new store.
NextQuery ==
    \/ \E t \in Threads :
        \/ Detect(t)
        \/ EnsureAcquire(t)
        \/ EnsureCheck(t)
        \/ EnsureSet(t)
    \/ \E t \in Requests :
        \/ StartRequest(t, "logs", 0)
        \/ StartRequest(t, "alerts", 0)
        \/ SeedInsert(t)
        \/ SeedIntel(t)
        \/ HookDone(t)
        \/ QueryLogs(t)
        \/ QueryAlerts(t)
    \/ GenBoot

SpecQuery == Init /\ [][NextQuery]_vars

\* The same calls over the store whose logs are five minutes old.
InitAged == \E m \in {"main_ti", "serving"} : InitWith(m, AgedStore)

SpecAged == InitAged /\ [][NextCall]_vars

(***************************************************************************)
(* Properties.                                                             *)
(***************************************************************************)

\* The alerts of a rule about log id in a sequence of alert rows.
AlertsOf(as, id, rule) == {i \in DOMAIN as : as[i].log_id = id /\ as[i].rule = rule}

\* The rules of the committed alerts about log id.
Seen(id) == {alerts[i].rule : i \in {j \in DOMAIN alerts : alerts[j].log_id = id}}

\* How many alerts of the rule about log id a step appends to the table.
Appended(id, rule) ==
    Cardinality(AlertsOf(alerts', id, rule)) - Cardinality(AlertsOf(alerts, id, rule))

\* The row that thread t's call of run_detection_on_log is about, as <<row>>.
Evaluated(t) == FetchLog(ViewLogs(t), loc[t].log_id)

\* The failure pattern: event_type contains "fail" or "login" in any case.
FailurePattern(row) == Like(row.event_type, "fail") \/ Like(row.event_type, "login")

\* An instant inside the window of the given length that ends at the clock.
InWindow(ts, length) == ts >= now - length

\* The rows of a view, other than log id, that are failure-pattern logs of
\* src_ip inside the brute-force window.
OthersInWindow(view, id, src_ip) ==
    {i \in DOMAIN view :
        /\ view[i].id # id
        /\ view[i].src_ip = src_ip
        /\ FailurePattern(view[i])
        /\ InWindow(view[i].timestamp, WindowBF)}

\* The distinct ports of the packets of src_ip inside the port-scan window.
PortsInWindow(view, src_ip) ==
    {view[i].dst_port : i \in {j \in DOMAIN view :
        view[j].src_ip = src_ip /\ InWindow(view[j].timestamp, WindowPS)}}

\* C1: an evaluation of a stored log whose severity is Critical appends
\* exactly one critical_sev alert, of severity Critical, with that log's id;
\* a log whose severity is Low, Medium or High never has a critical_sev
\* alert, committed or not.
C1_CriticalExactlyOne ==
    [][ /\ \A t \in Threads :
            Detect(t) /\ Evaluated(t) # <<>> /\ Evaluated(t)[1].severity = "Critical" =>
                /\ Appended(loc[t].log_id, "critical_sev") = 1
                /\ \A i \in AlertsOf(alerts', loc[t].log_id, "critical_sev") :
                      alerts'[i].severity = "Critical"
        /\ \A t \in Threads :
            \A i \in DOMAIN ViewLogs(t)' :
                ViewLogs(t)'[i].severity \in {"Low", "Medium", "High"} =>
                    AlertsOf(alerts' \o pend'[t].alerts, ViewLogs(t)'[i].id, "critical_sev") = {}
      ]_vars

\* C1's case: a log of severity Critical has been evaluated once and has its
\* critical_sev alert.
C1_Witness ==
    \E i \in DOMAIN logs :
        /\ logs[i].severity = "Critical"
        /\ logs[i].id \in DOMAIN evals
        /\ Cardinality(AlertsOf(alerts, logs[i].id, "critical_sev")) = 1

\* C2: when a failure-pattern log L of src_ip X with its timestamp inside the
\* brute-force window is evaluated, the rule's count is N + 1, N being the
\* number of other stored failure-pattern logs of X inside the window, and a
\* brute_force alert of severity Medium about L is appended if and only if
\* N + 1 >= 5.
C2_BruteForceCount ==
    [][ \A t \in Threads :
          LET got == Evaluated(t)
              L == got[1]
              N == Cardinality(OthersInWindow(ViewLogs(t), L.id, L.src_ip))
          IN  /\ Detect(t)
              /\ got # <<>>
              /\ Truthy(L.src_ip)
              /\ FailurePattern(L)
              /\ InWindow(L.timestamp, WindowBF)
              => /\ CountSince(ViewLogs(t), L.src_ip, now) = N + 1
                 /\ Appended(L.id, "brute_force") = (IF N + 1 >= THRESHOLD_BF THEN 1 ELSE 0)
                 /\ \A i \in AlertsOf(alerts', L.id, "brute_force") :
                       alerts'[i].severity = "Medium"
      ]_vars

\* C3: when a log of src_ip Y is evaluated, a port_scan alert of severity
\* High about it is appended if and only if the packets stored for Y with
\* their timestamp in the last 60 seconds go to at least 10 distinct ports.
C3_PortScanIff ==
    [][ \A t \in Threads :
          LET got == Evaluated(t)
              L == got[1]
              ports == PortsInWindow(ViewPackets(t), L.src_ip)
          IN  Detect(t) /\ got # <<>> /\ Truthy(L.src_ip)
              => /\ Appended(L.id, "port_scan") =
                       (IF Cardinality(ports) >= THRESHOLD_PS THEN 1 ELSE 0)
                 /\ \A i \in AlertsOf(alerts', L.id, "port_scan") :
                       /\ alerts'[i].severity = "High"
                       /\ alerts'[i].n >= THRESHOLD_PS
      ]_vars

C5_AlertsAtomic ==
    \A id \in DOMAIN found : Seen(id) = {} \/ Seen(id) = found[id]

\* C6: every committed log has been passed to run_detection_on_log exactly
\* once, or is the one a thread is about to pass; and no log has two alerts
\* of the same rule.
C6_EvaluatedOnce ==
    /\ \A i \in DOMAIN logs :
        \/ logs[i].id \in DOMAIN evals /\ evals[logs[i].id] = 1
        \/ /\ logs[i].id \notin DOMAIN evals
           /\ \E t \in Threads : pc[t] = "detect" /\ loc[t].log_id = logs[i].id
    /\ \A i, j \in DOMAIN alerts :
        alerts[i].log_id = alerts[j].log_id /\ alerts[i].rule = alerts[j].rule => i = j

\* The committed failure-pattern logs of src_ip inside the brute-force window.
CommittedInWindow(src_ip) ==
    {i \in DOMAIN logs :
        /\ logs[i].src_ip = src_ip
        /\ FailurePattern(logs[i])
        /\ InWindow(logs[i].timestamp, WindowBF)}

\* C7: the counts of an evaluation cover every log and every packet committed
\* before it, by whichever producer; so when five failure-pattern logs of one
\* src_ip inside the window are committed, the evaluation of the one
\* committed last appends a brute_force alert.
C7_CountsSeeCommitted ==
    [][ \A t \in Threads :
          LET got == Evaluated(t)
              L == got[1]
              mine == CommittedInWindow(L.src_ip)
          IN  Detect(t) /\ got # <<>> /\ Truthy(L.src_ip)
              => /\ CountSince(ViewLogs(t), L.src_ip, now) >= Cardinality(mine)
                 /\ CountDistinctPortsSince(ViewPackets(t), L.src_ip, now)
                       >= Cardinality(PortsInWindow(packets, L.src_ip))
                 /\ (/\ Cardinality(mine) >= THRESHOLD_BF
                     /\ \E i \in mine : logs[i].id = L.id
                     /\ \A i \in mine : logs[i].id <= L.id)
                    => Appended(L.id, "brute_force") = 1
      ]_vars

\* C8: every alert, committed or not, is about a committed log.
C8_AlertsReferToLogs ==
    \A t \in Threads :
        \A i \in DOMAIN (alerts \o pend[t].alerts) :
            \E j \in DOMAIN logs : logs[j].id = (alerts \o pend[t].alerts)[i].log_id

\* C8's case: an evaluation was interrupted after it inserted an alert, which
\* its connection still holds uncommitted, and other alerts are committed.
C8_Witness ==
    /\ alerts # <<>>
    /\ \E t \in Threads : pend[t].alerts # <<>>

\* C9: at most one generator thread is ever started, and once one is started
\* and no call is at work the flag is set, so that every later call
\* is a no-op.
C9_StartedOnce ==
    /\ started <= 1
    /\ started = 1 /\ GENERATOR_LOCK = None => GENERATOR_RUNNING

\* C9's case: the generator is started and both requests have finished,
\* each after two calls of ensure_generator_running.
C9_Witness ==
    /\ started = 1
    /\ \A t \in Requests : pc[t] = "done"

\* C10: no store error ends the generator's thread.
C10_GeneratorSurvives == pc["gen"] # "dead"

\* C11: when a call of run_detection_on_log starts, its log is committed;
\* when the call ends, normally or with an error, the logs table is what it
\* was: the log is still there, unchanged, and no row was added.
C11_LogSurvivesEvaluation ==
    [][ \A t \in Threads :
          /\ pc'[t] = "detect" => FetchLog(logs', loc'[t].log_id) # <<>>
          /\ pc[t] = "detect" /\ pc'[t] # "detect" =>
                /\ FetchLog(logs, loc[t].log_id) # <<>>
                /\ logs' = logs
      ]_vars

\* C11's case: an upload's evaluation ended with an error, the request
\* failed, and the log it was about is stored.
C11_Witness ==
    \E t \in Requests :
        /\ pc[t] = "failed"
        /\ loc[t].log_id \in DOMAIN evals
        /\ FetchLog(logs, loc[t].log_id) # <<>>

\* What of the program's state an observer can read: the tables and the
\* module's globals.
Observable ==
    <<logs, packets, alerts, threat_intel, GENERATOR_RUNNING, GENERATOR_LOCK, seed_done>>

\* C12: a call of run_detection_on_log for a log_id whose row cannot be read
\* appends no alert, returns to its caller, and leaves a record of the
\* skipped evaluation that an observer can read.
C12_SkipIsRecorded ==
    [][ \A t \in Threads :
          Detect(t) /\ Evaluated(t) = <<>> =>
              /\ alerts' = alerts
              /\ pc'[t] = loc[t].ret
              /\ Observable' # Observable
      ]_vars

\* The fields a record must have.
HasRequiredFields(row) ==
    /\ row.source # None
    /\ row.event_type # None
    /\ row.severity # None
    /\ row.message # None

\* C13: a record that lacks source, event_type, severity or message is
\* rejected: no row is stored for it and no evaluation runs for it.
C13_MalformedRejected ==
    /\ \A i \in DOMAIN logs : HasRequiredFields(logs[i])
    /\ \A t \in Threads :
        pc[t] = "detect" /\ Evaluated(t) # <<>> => HasRequiredFields(Evaluated(t)[1])

\* C14: the records of an uploaded file are stored and evaluated one at a
\* time: when the next record is inserted, every record before it is
\* committed and evaluated, and the id of the new row, greater than every
\* id before it, goes to the end of `inserted`; the response is given when
\* no record is left, with the ids of all of them.
C14_UploadInOrder ==
    [][ \A t \in Requests :
          /\ pc[t] = "up_ins" /\ pc'[t] = "detect" =>
                LET before == loc[t].inserted
                    new == logs'[Len(logs')].id
                IN  /\ Len(logs') = Len(logs) + 1
                    /\ loc'[t].log_id = new
                    /\ loc'[t].inserted = Append(before, new)
                    /\ loc'[t].todo = loc[t].todo - 1
                    /\ \A j \in DOMAIN before :
                          /\ before[j] < new
                          /\ before[j] \in DOMAIN evals
                          /\ FetchLog(logs, before[j]) # <<>>
          /\ loc'[t].route = "upload" /\ pc'[t] = "done" =>
                /\ loc'[t].todo = 0
                /\ \A j \in DOMAIN loc'[t].inserted : loc'[t].inserted[j] \in DOMAIN evals'
      ]_vars

\* C14's case: the response of an upload of two records, between which the
\* generator stored a log.
C14_Witness ==
    \E t \in Requests :
        /\ pc[t] = "done"
        /\ Len(loc[t].inserted) = 2
        /\ loc[t].inserted[2] > loc[t].inserted[1] + 1

\* The ten minutes that the specification gives the brute-force window.
TenMinutes == 10 * 60 * 2

\* C15: the brute-force rule counts over ten minutes: when a log of src_ip X
\* is evaluated, the rule's count is the number of stored failure-pattern
\* logs of X that are at most ten minutes old (one that is five minutes old
\* is among them), and the brute_force alert is appended when that number is
\* at least 5.
C15_TenMinuteWindow ==
    [][ \A t \in Threads :
          LET got == Evaluated(t)
              L == got[1]
              counted == {i \in DOMAIN ViewLogs(t) :
                            /\ ViewLogs(t)[i].src_ip = L.src_ip
                            /\ FailurePattern(ViewLogs(t)[i])
                            /\ InWindow(ViewLogs(t)[i].timestamp, TenMinutes)}
          IN  Detect(t) /\ got # <<>> /\ Truthy(L.src_ip)
              => /\ CountSince(ViewLogs(t), L.src_ip, now) = Cardinality(counted)
                 /\ Appended(L.id, "brute_force") =
                       (IF Cardinality(counted) >= THRESHOLD_BF THEN 1 ELSE 0)
      ]_vars

\* Whether the ids of a sequence of log rows grow strictly along it.
Increasing(view) == \A i, j \in DOMAIN view : i < j => view[i].id < view[j].id

AlertsAbout(as, id) == SelectSeq(as, LAMBDA a : a.log_id = id)

\* C17: detection does not read threat_intel: when run_detection_on_log is
\* called a second time with the id of a stored log, the logs, the packets
\* and the clock being what they were at the first call, it appends the
\* alerts that the first call appended, whatever threat_intel held at
\* either call.
C17_IntelNotConsulted ==
    [][ \A t \in Requests :
          LET id == loc[t].log_id
          IN  /\ Detect(t)
              /\ Evaluated(t) # <<>>
              /\ calls = 2 /\ faults = 0 /\ evals[id] = 2
              => SubSeq(alerts', Len(alerts) + 1, Len(alerts')) = AlertsAbout(alerts, id)
      ]_vars

\* C17's case: a log with alerts has been evaluated by two calls, one before
\* threat_intel was filled and one after, its src_ip being in threat_intel.
C17_Witness ==
    \E i \in DOMAIN logs :
        /\ calls = 2 /\ faults = 0 /\ evals[logs[i].id] = 3
        /\ intel_at[logs[i].id] = {{}, threat_intel}
        /\ logs[i].src_ip \in threat_intel
        /\ Len(AlertsAbout(alerts, logs[i].id)) = 2

\* C18: the response of a logs query holds no more rows than the limit that
\* the request supplies, in descending id order; its rows are stored logs
\* that satisfy every filter of the request, and a stored log that satisfies
\* them is left out only when the response is full and the log is older than
\* its rows.  The response of an alerts query holds the newest alerts in
\* descending id order, 50 at most.
C18_QueryFilteredCapped ==
    [][ \A t \in Requests :
          /\ \A a \in QueryArgs :
                QueryLogsWith(t, a) =>
                    LET resp == loc'[t].resp
                        limit == IF a.limit = <<>> THEN DEFAULT_LIMIT ELSE a.limit[1]
                    IN  /\ Len(resp) <= limit
                        /\ \A i, j \in DOMAIN resp : i < j => resp[i].id > resp[j].id
                        /\ \A i \in DOMAIN resp :
                              /\ \E k \in DOMAIN logs : logs[k] = resp[i]
                              /\ Matches(resp[i], a)
                        /\ \A k \in DOMAIN logs :
                              Matches(logs[k], a) /\ (\A i \in DOMAIN resp : resp[i] # logs[k])
                              => /\ Len(resp) = limit
                                 /\ \A i \in DOMAIN resp : resp[i].id > logs[k].id
          /\ QueryAlerts(t) =>
                LET resp == loc'[t].resp
                IN  /\ Len(resp) <= ALERTS_LIMIT
                    /\ Len(resp) = Len(alerts) \/ Len(resp) = ALERTS_LIMIT
                    /\ \A i \in DOMAIN resp :
                          /\ resp[i].id = Len(alerts) + 1 - i
                          /\ resp[i].alert = alerts[resp[i].id]
      ]_vars

\* Whether sequence a is the beginning of sequence b.
Prefix(a, b) == Len(a) <= Len(b) /\ SubSeq(b, 1, Len(a)) = a

\* C19: every step of the generator, of a request and of an evaluation
\* leaves the stored logs and the stored packets as they were, or adds rows
\* after them: no row is deleted and no field of a row changes.
C19_AppendOnly ==
    [][ Prefix(logs, logs') /\ Prefix(packets, packets') ]_vars

\* C19's case: the generator has stored a packet and a log, an upload has
\* stored a log, an evaluation has stored an alert, and time has passed.
C19_Witness ==
    /\ \E i \in DOMAIN logs : logs[i].message = "observed (demo)"
    /\ \E i \in DOMAIN logs : logs[i].source \in {r.source : r \in UploadRows}
                              /\ logs[i].message \in {r.message : r \in UploadRows}
    /\ \E i \in DOMAIN packets : packets[i].timestamp >= StartInstant
    /\ alerts # <<>>
    /\ now > StartInstant

\* The stored logs that are copies of demo row k of seed_demo.
DemoCopies(k) ==
    {i \in DOMAIN logs :
        /\ logs[i].timestamp = DemoRows[k].timestamp[1]
        /\ logs[i].source = DemoRows[k].source
        /\ logs[i].message = DemoRows[k].message}

\* C20: demo seeding runs at most once: whatever the interleaving of the
\* first requests through run_seed_once over an empty logs table, the logs
\* table holds at most one copy of each of the three demo logs, and each
\* copy is evaluated once.
C20_SeededOnce ==
    \A k \in DOMAIN DemoRows :
        /\ Cardinality(DemoCopies(k)) <= 1
        /\ \A i \in DemoCopies(k) : logs[i].id \in DOMAIN evals => evals[logs[i].id] <= 1

\* Whether a log row has no src_ip: NULL or the empty string.
Absent(row) == row.src_ip = None \/ row.src_ip = ""

\* C21: a log whose src_ip is NULL or empty gets no brute_force and no
\* port_scan alert, whatever the store holds: its evaluation appends either
\* nothing or one critical_sev alert, and no alert about such a log,
\* committed or not, is of another rule.
C21_AbsentIpOnlyCritical ==
    [][ \A t \in Threads :
          /\ Detect(t) /\ Evaluated(t) # <<>> /\ Absent(Evaluated(t)[1]) =>
                LET id == loc[t].log_id
                    new == SubSeq(alerts', Len(alerts) + 1, Len(alerts'))
                IN  /\ Appended(id, "brute_force") = 0
                    /\ Appended(id, "port_scan") = 0
                    /\ Len(new) <= 1
                    /\ \A i \in DOMAIN new : new[i].log_id = id /\ new[i].rule = "critical_sev"
          /\ \A i \in DOMAIN ViewLogs(t)' :
                Absent(ViewLogs(t)'[i]) =>
                    \A j \in DOMAIN (alerts' \o pend'[t].alerts) :
                        (alerts' \o pend'[t].alerts)[j].log_id = ViewLogs(t)'[i].id
                        => (alerts' \o pend'[t].alerts)[j].rule = "critical_sev"
      ]_vars

\* C21's case: a failed login with an empty src_ip has been evaluated by a
\* call while the store held five failed logins with that src_ip inside the
\* window, and has no alert; a critical log without src_ip has been
\* evaluated and has its critical_sev alert only.
C21_Witness ==
    \E i, k \in DOMAIN logs :
        /\ logs[i].src_ip = "" /\ FailurePattern(logs[i])
        /\ evals[logs[i].id] = 2
        /\ AlertsAbout(alerts, logs[i].id) = <<>>
        /\ Cardinality({j \in DOMAIN logs :
                /\ logs[j].src_ip = ""
                /\ FailurePattern(logs[j])
                /\ InWindow(logs[j].timestamp, WindowBF)}) >= THRESHOLD_BF
        /\ logs[k].src_ip = None
        /\ evals[logs[k].id] = 2
        /\ Len(AlertsAbout(alerts, logs[k].id)) = 1
        /\ faults = 0
=============================================================================
